---------------------------- MODULE Spec2Model ----------------------------
(***************************************************************************)
(* FABRIK inverse-kinematics chain (src/src/lib.rs).                       *)
(*                                                                         *)
(* Numbers.  The program computes in f32.  The model computes in fixed     *)
(* point over the integers:                                                *)
(*   - a coordinate, a segment length or a tolerance is an integer count   *)
(*     of 1/Scale;                                                         *)
(*   - a squared quantity (length_squared, distance_squared, tolerance_sq, *)
(*     total_len * total_len) is the exact integer product, a count of     *)
(*     1/Scale^2, so every comparison solve makes is exact;                *)
(*   - a direction returned by normalize has components that are counts    *)
(*     of 1/UnitScale.                                                     *)
(* sqrt and the division inside normalize round to nearest, as f32 does,   *)
(* and normalize keeps a relative precision (at least MantissaMin          *)
(* significant units in the length it divides by), as a floating-point     *)
(* mantissa does.  Properties that the program meets "within epsilon" are  *)
(* stated within LenEps.                                                   *)
(***************************************************************************)
EXTENDS Integers, Sequences, FiniteSets, TLC

\* Fixed-point resolution of an f32 coordinate: 1.0 is Scale.
Scale == 32

\* Fixed-point resolution of a unit direction's components.
UnitScale == 32768

\* normalize works on a vector scaled up to at least this many units.
MantissaMin == 8192

\* Largest root whose square is a representable intermediate value.
SqrtMax == 46340

\* Number of operations applied to a chain after its construction.
MaxOps == 3

Abs(a) == IF a < 0 THEN -a ELSE a

Max(a, b) == IF a >= b THEN a ELSE b

\* a / b rounded to nearest, ties away from zero (b > 0).
RDiv(a, b) == IF a >= 0 THEN (a + b \div 2) \div b ELSE -((-a + b \div 2) \div b)

RECURSIVE SqrtSearch(_, _, _)
SqrtSearch(n, lo, hi) ==
    IF lo >= hi THEN lo
    ELSE LET mid == (lo + hi + 1) \div 2
         IN  IF mid * mid <= n THEN SqrtSearch(n, mid, hi)
                               ELSE SqrtSearch(n, lo, mid - 1)

\* f32::sqrt: the integer nearest to the square root of n.
Nearest(n, r) == IF n - r * r > r THEN r + 1 ELSE r

Sqrt(n) == Nearest(n, SqrtSearch(n, 0, SqrtMax))

---------------------------------------------------------------------------
\* Vec2

Vec2(x, y) == [x |-> x, y |-> y]

ZERO == Vec2(0, 0)

length_squared(v) == v.x * v.x + v.y * v.y

length(v) == Sqrt(length_squared(v))

add(a, b) == Vec2(a.x + b.x, a.y + b.y)

sub(a, b) == Vec2(a.x - b.x, a.y - b.y)

\* Vec2 * f32, for a direction (1/UnitScale) times a length (1/Scale).
mul(v, s) == Vec2(RDiv(v.x * s, UnitScale), RDiv(v.y * s, UnitScale))

distance_squared(a, b) == length_squared(sub(a, b))

distance(a, b) == Sqrt(distance_squared(a, b))

\* The significant digits of a non-zero vector: v times a power of two.
RECURSIVE Mantissa(_)
Mantissa(v) ==
    IF Max(Abs(v.x), Abs(v.y)) >= MantissaMin THEN v
    ELSE Mantissa(Vec2(2 * v.x, 2 * v.y))

\* v * (1.0 / len), the components rounded to 1/UnitScale.
scaled(v, len) == Vec2(RDiv(v.x * UnitScale, len), RDiv(v.y * UnitScale, len))

\* A normalize that answers the x axis for a vector of zero length.
normalize_axis(v) ==
    IF length(v) = 0 THEN Vec2(UnitScale, 0)
    ELSE LET m == Mantissa(v) IN scaled(m, length(m))

\* self * (1.0 / len), or ZERO when len == 0.0.
normalize(v) ==
    IF length(v) = 0 THEN ZERO
    ELSE LET m == Mantissa(v) IN scaled(m, length(m))

---------------------------------------------------------------------------
\* Chain

Last(s) == s[Len(s)]

RECURSIVE Sum(_)
Sum(s) == IF s = <<>> THEN 0 ELSE s[1] + Sum(Tail(s))

\* The loop with pos.y += len: a chain laid out toward increasing y.
RECURSIVE push_joints_down(_, _, _)
push_joints_down(joints, pos, lengths) ==
    IF lengths = <<>> THEN joints
    ELSE LET p == Vec2(pos.x, pos.y + lengths[1])
         IN  push_joints_down(Append(joints, p), p, Tail(lengths))

\* The for loop of with_lengths: pos.y -= len; joints.push(pos).
RECURSIVE push_joints(_, _, _)
push_joints(joints, pos, lengths) ==
    IF lengths = <<>> THEN joints
    ELSE LET p == Vec2(pos.x, pos.y - lengths[1])
         IN  push_joints(Append(joints, p), p, Tail(lengths))

with_lengths(origin, lengths, tolerance, max_iterations) ==
    [ joints         |-> push_joints(<<origin>>, origin, lengths),
      lengths        |-> lengths,
      tolerance      |-> tolerance,
      max_iterations |-> max_iterations,
      origin         |-> origin,
      total_length   |-> Sum(lengths) ]

new(origin, config) ==
    with_lengths(origin,
                 [i \in 1..config.segment_count |-> config.segment_length],
                 config.tolerance, config.max_iterations)

\* A rebuild that keeps the pose when the joint count does not change.
rebuild_keeps_pose(self, config) ==
    IF Len(self.joints) = config.segment_count + 1
    THEN [new(self.origin, config) EXCEPT !.joints = self.joints]
    ELSE new(self.origin, config)

\* A rebuild that keeps the cached reach of the chain it replaces.
rebuild_keeps_total(self, config) ==
    [new(self.origin, config) EXCEPT !.total_length = self.total_length]

rebuild(self, config) == new(self.origin, config)

\* A set_origin that carries every joint along with the base.
set_origin_translates(self, origin) ==
    [self EXCEPT !.origin = origin,
                 !.joints = [k \in 1..Len(self.joints) |->
                                add(self.joints[k], sub(origin, self.joints[1]))]]

set_origin(self, origin) ==
    [self EXCEPT !.origin = origin, !.joints[1] = origin]

origin(self) == self.origin

total_length(self) == self.total_length

joint_count(self) == Len(self.joints)

segment_count(self) == Len(self.lengths)

\* The loop of forward_reach, i running down from n - 2 to 0 (here n - 1 to 1).
RECURSIVE forward_loop(_, _, _)
forward_loop(joints, lengths, i) ==
    IF i < 1 THEN joints
    ELSE forward_loop([joints EXCEPT ![i] =
                          add(joints[i + 1],
                              mul(normalize(sub(joints[i], joints[i + 1])), lengths[i]))],
                      lengths, i - 1)

forward_reach(self, target) ==
    LET n == Len(self.joints)
    IN  [self EXCEPT !.joints =
            forward_loop([self.joints EXCEPT ![n] = target], self.lengths, n - 1)]

\* The loop of backward_reach, i running up from 0 to lengths.len() - 1.
RECURSIVE backward_loop(_, _, _)
backward_loop(joints, lengths, i) ==
    IF i > Len(lengths) THEN joints
    ELSE backward_loop([joints EXCEPT ![i + 1] =
                           add(joints[i],
                               mul(normalize(sub(joints[i + 1], joints[i])), lengths[i]))],
                       lengths, i + 1)

\* A backward pass that does not re-anchor joints[0].
backward_reach_unanchored(self, base) ==
    [self EXCEPT !.joints = backward_loop(self.joints, self.lengths, 1)]

backward_reach(self, base) ==
    [self EXCEPT !.joints =
        backward_loop([self.joints EXCEPT ![1] = base], self.lengths, 1)]

\* The loop of the unreachable branch: pos += dir * len; joints[i + 1] = pos.
RECURSIVE stretch_loop(_, _, _, _, _)
stretch_loop(joints, lengths, dir, pos, i) ==
    IF i > Len(lengths) THEN joints
    ELSE stretch_loop([joints EXCEPT ![i + 1] = add(pos, mul(dir, lengths[i]))],
                      lengths, dir, add(pos, mul(dir, lengths[i])), i + 1)

\* A test that sends the boundary case to the iterations.
unreachable_strict(self, target) ==
    distance_squared(self.joints[1], target) > self.total_length * self.total_length

\* The test of the unreachable branch.
unreachable(self, target) ==
    distance_squared(self.joints[1], target) >= self.total_length * self.total_length

\* What a call of solve did: the chain it leaves, the rounds (forward_reach
\* then backward_reach) it ran, the squared end-effector-to-target distance at
\* each pass through the top of the loop and at its exit, and whether it took
\* the unreachable branch.
Ran(self, rounds, errs, stretched) ==
    [chain |-> self, rounds |-> rounds, errs |-> errs, stretched |-> stretched]

\* The iterations without the early stop.
RECURSIVE fabrik_loop_no_stop(_, _, _, _, _, _)
fabrik_loop_no_stop(self, target, base, tolerance_sq, done, errs) ==
    IF done >= self.max_iterations
    THEN Ran(self, done, Append(errs, distance_squared(Last(self.joints), target)), FALSE)
    ELSE fabrik_loop_no_stop(backward_reach(forward_reach(self, target), base),
                             target, base, tolerance_sq, done + 1,
                             Append(errs, distance_squared(Last(self.joints), target)))

\* The iterations over 0..=self.max_iterations.
RECURSIVE fabrik_loop_inclusive(_, _, _, _, _, _)
fabrik_loop_inclusive(self, target, base, tolerance_sq, done, errs) ==
    IF done > self.max_iterations
    THEN Ran(self, done, Append(errs, distance_squared(Last(self.joints), target)), FALSE)
    ELSE IF distance_squared(Last(self.joints), target) < tolerance_sq
    THEN Ran(self, done, Append(errs, distance_squared(Last(self.joints), target)), FALSE)
    ELSE fabrik_loop_inclusive(backward_reach(forward_reach(self, target), base),
                               target, base, tolerance_sq, done + 1,
                               Append(errs, distance_squared(Last(self.joints), target)))

\* The FABRIK iterations "for _ in 0..self.max_iterations", with done rounds
\* completed so far.
RECURSIVE fabrik_loop(_, _, _, _, _, _)
fabrik_loop(self, target, base, tolerance_sq, done, errs) ==
    IF done >= self.max_iterations
    THEN Ran(self, done, Append(errs, distance_squared(Last(self.joints), target)), FALSE)
    ELSE IF distance_squared(Last(self.joints), target) < tolerance_sq
    THEN Ran(self, done, Append(errs, distance_squared(Last(self.joints), target)), FALSE)
    ELSE fabrik_loop(backward_reach(forward_reach(self, target), base),
                     target, base, tolerance_sq, done + 1,
                     Append(errs, distance_squared(Last(self.joints), target)))

\* solve, with what it did.
solve_run(self, target) ==
    IF unreachable(self, target)
    THEN Ran([self EXCEPT !.joints =
                 stretch_loop(self.joints, self.lengths,
                              normalize(sub(target, self.joints[1])),
                              self.joints[1], 1)],
             0, <<>>, TRUE)
    ELSE fabrik_loop(self, target, self.joints[1],
                     self.tolerance * self.tolerance, 0, <<>>)

solve(self, target) == solve_run(self, target).chain

---------------------------------------------------------------------------
\* Inputs

P(x, y) == Vec2(x * Scale, y * Scale)

Config(n, len, tol, it) ==
    [segment_count |-> n, segment_length |-> len, tolerance |-> tol,
     max_iterations |-> it]

Half == Scale \div 2

\* ChainConfig::default()
DefaultConfig == Config(8, 50 * Scale, Half, 10)

Configs ==
    { Config(2, 50 * Scale, Half, 10),
      DefaultConfig,
      Config(3, 20 * Scale, 0, 2),
      Config(1, 50 * Scale, Half, 0) }

LengthLists == { <<>>, <<30 * Scale, 0, 20 * Scale>> }

Origins == { P(0, 0), P(0, -40) }

Targets ==
    { P(100, 0), P(0, -50), P(0, -51), P(0, 30), P(30, 40), P(90, 120), P(0, 0) }

---------------------------------------------------------------------------
\* The program: a chain and the operation last applied to it (op, with its
\* argument arg and, for solve, what the call did), and in before the chain,
\* operation and argument as they were when that operation was called.

VARIABLES chain, op, arg, run, before, steps

vars == <<chain, op, arg, run, before, steps>>

NoRun == [rounds |-> 0, errs |-> <<>>, stretched |-> FALSE]

Now == [chain |-> chain, op |-> op, arg |-> arg]

Init ==
    /\ \E o \in Origins :
          \/ \E c \in Configs :
                /\ chain = new(o, c)
                /\ op = "new"
                /\ arg = c
          \/ \E l \in LengthLists :
                /\ chain = with_lengths(o, l, Half, 10)
                /\ op = "with_lengths"
                /\ arg = l
    /\ run = NoRun
    /\ before = [chain |-> <<>>, op |-> "none", arg |-> <<>>]
    /\ steps = 0

Solve ==
    /\ steps < MaxOps
    /\ \E t \in Targets :
          \E r \in {solve_run(chain, t)} :
              /\ chain' = r.chain
              /\ run' = [rounds |-> r.rounds, errs |-> r.errs,
                         stretched |-> r.stretched]
              /\ arg' = t
    /\ op' = "solve"
    /\ before' = Now
    /\ steps' = steps + 1

SetOrigin ==
    /\ steps < MaxOps
    /\ \E o \in Origins :
          /\ chain' = set_origin(chain, o)
          /\ arg' = o
    /\ op' = "set_origin"
    /\ run' = NoRun
    /\ before' = Now
    /\ steps' = steps + 1

Rebuild ==
    /\ steps < MaxOps
    /\ \E c \in Configs :
          /\ chain' = rebuild(chain, c)
          /\ arg' = c
    /\ op' = "rebuild"
    /\ run' = NoRun
    /\ before' = Now
    /\ steps' = steps + 1

Next == Solve \/ SetOrigin \/ Rebuild

Spec == Init /\ [][Next]_vars

---------------------------------------------------------------------------
\* Properties

\* Rounding of one repositioning step, in units of 1/Scale.
LenEps == 1

\* dsq is the square of a distance within e of l.
Near(dsq, l, e) == Max(l - e, 0) * Max(l - e, 0) <= dsq /\ dsq <= (l + e) * (l + e)

\* lengths[0] + ... + lengths[k - 1]
RECURSIVE SumTo(_, _)
SumTo(s, k) == IF k = 0 THEN 0 ELSE s[k] + SumTo(s, k - 1)

Cross(a, b) == a.x * b.y - a.y * b.x

Dot(a, b) == a.x * b.x + a.y * b.y

Segments == 1..Len(chain.lengths)

\* C1: after every call of solve, every adjacent joint pair i with
\* lengths[i] != 0 is at distance lengths[i] (within LenEps).
C1_LengthInvariant ==
    op = "solve" =>
        \A i \in Segments :
            chain.lengths[i] # 0 =>
                Near(distance_squared(chain.joints[i], chain.joints[i + 1]),
                     chain.lengths[i], LenEps)

\* C2: a chain fresh from new, with a positive uniform segment_length and
\* max_iterations >= 10, solved once toward a target closer to the origin than
\* total_length, ends with its end effector within tolerance of the target.
C2_Convergence ==
    ( /\ op = "solve"
      /\ before.op = "new"
      /\ before.arg.segment_length > 0
      /\ chain.max_iterations >= 10
      /\ distance_squared(origin(chain), arg) < total_length(chain) * total_length(chain) )
    => distance_squared(Last(chain.joints), arg) <= chain.tolerance * chain.tolerance

\* The call of solve just made found its target at or beyond total_length.
Unreachable ==
    /\ op = "solve"
    /\ distance_squared(before.chain.joints[1], arg)
           >= before.chain.total_length * before.chain.total_length

\* C3: when distance(joints[0], target) >= total_length, the boundary included,
\* solve runs no round and puts joints[k] at base + dir * (lengths[0] + ... +
\* lengths[k-1]) (each step rounding by at most LenEps): every joint is on the
\* ray from the base toward the target, the end effector is at total_length
\* from the base, and origin (0,0), two segments of 50, target (100,0) give
\* [(0,0), (50,0), (100,0)].
C3_UnreachableStretch ==
    Unreachable =>
        /\ run.rounds = 0
        /\ chain.joints[1] = before.chain.joints[1]
        /\ \A k \in Segments :
              /\ Abs(chain.joints[k + 1].x
                     - add(chain.joints[1],
                           mul(normalize(sub(arg, chain.joints[1])),
                               SumTo(chain.lengths, k))).x) <= k * LenEps
              /\ Abs(chain.joints[k + 1].y
                     - add(chain.joints[1],
                           mul(normalize(sub(arg, chain.joints[1])),
                               SumTo(chain.lengths, k))).y) <= k * LenEps
              /\ Dot(sub(chain.joints[k + 1], chain.joints[1]),
                     sub(arg, chain.joints[1])) >= 0
              /\ Abs(Cross(sub(chain.joints[k + 1], chain.joints[1]),
                           sub(arg, chain.joints[1])))
                    <= k * LenEps * distance(arg, chain.joints[1])
        /\ Near(distance_squared(Last(chain.joints), chain.joints[1]),
                total_length(chain), Len(chain.lengths) * LenEps)
        /\ ( /\ before.chain.joints[1] = P(0, 0)
             /\ chain.lengths = <<50 * Scale, 50 * Scale>>
             /\ arg = P(100, 0) )
           => chain.joints = <<P(0, 0), P(50, 0), P(100, 0)>>

\* The boundary case has been solved: two segments of 50 stretched from (0,0)
\* to a target at distance exactly 100, after a pose that was not that one.
C3_Witness ==
    /\ Unreachable
    /\ run.stretched
    /\ arg = P(100, 0)
    /\ before.chain.joints # chain.joints
    /\ chain.joints = <<P(0, 0), P(50, 0), P(100, 0)>>

\* C4: joints[0] == origin() in every state, and solve returns with joints[0]
\* equal to the base it read when called.
C4_BaseAnchoring ==
    /\ chain.joints[1] = origin(chain)
    /\ op = "solve" => chain.joints[1] = before.chain.joints[1]

\* solve has run at least one round, whose forward pass moves joints[0] off
\* the base.
C4_Witness ==
    /\ op = "solve"
    /\ run.rounds > 0
    /\ forward_reach(chain, arg).joints[1] # chain.joints[1]

\* C5: every round solve runs leaves the end effector no farther from the
\* target than it was before the round (within LenEps).
C5_MonotoneProgress ==
    op = "solve" =>
        \A i \in 1..run.rounds :
            Sqrt(run.errs[i + 1]) <= Sqrt(run.errs[i]) + LenEps

\* C6: total_length() is the sum of the current lengths; solve and set_origin
\* change neither, and rebuild recomputes it for the new lengths.
C6_CachedReach ==
    /\ total_length(chain) = Sum(chain.lengths)
    /\ op \in {"solve", "set_origin"} =>
          /\ chain.lengths = before.chain.lengths
          /\ total_length(chain) = total_length(before.chain)

\* rebuild has replaced the lengths by ones with another sum.
C6_Witness ==
    /\ op = "rebuild"
    /\ chain.lengths # before.chain.lengths
    /\ total_length(chain) # total_length(before.chain)

\* C7: rebuild(config) leaves exactly the chain new(origin(), config) returns,
\* whatever the chain was; so a solve right after it leaves what the same
\* solve leaves on that fresh chain.
C7_RebuildEquivalence ==
    /\ op = "rebuild" => chain = new(origin(before.chain), arg)
    /\ (op = "solve" /\ before.op = "rebuild") =>
          chain = solve(new(origin(before.chain), before.arg), arg)

\* A chain that had been operated on was rebuilt and then solved by rounds.
C7_Witness ==
    /\ op = "solve"
    /\ before.op = "rebuild"
    /\ steps >= 3
    /\ run.rounds > 0

\* C8: set_origin(p) sets origin and joints[0] to p and leaves joints[1..],
\* lengths, tolerance, max_iterations, total_length and the joint count alone.
C8_SetOriginFrame ==
    op = "set_origin" =>
        /\ origin(chain) = arg
        /\ chain.joints[1] = arg
        /\ joint_count(chain) = joint_count(before.chain)
        /\ \A k \in 2..joint_count(chain) : chain.joints[k] = before.chain.joints[k]
        /\ chain.lengths = before.chain.lengths
        /\ chain.tolerance = before.chain.tolerance
        /\ chain.max_iterations = before.chain.max_iterations
        /\ total_length(chain) = total_length(before.chain)

\* The origin of a solved chain with segments has been moved.
C8_Witness ==
    /\ op = "set_origin"
    /\ before.op = "solve"
    /\ arg # origin(before.chain)
    /\ joint_count(chain) > 1

\* solve(t) was called twice in a row.
Again == op = "solve" /\ before.op = "solve" /\ before.arg = arg

\* Squared distance from the end effector to t after the first of the two calls.
FirstErr == distance_squared(Last(before.chain.joints), arg)

\* Squared distance the second call moved the end effector.
Moved == distance_squared(Last(chain.joints), Last(before.chain.joints))

\* C9 as stated: if solve(t) returned with the end effector within tolerance
\* of t (distance <= tolerance), a second solve(t) moves the end effector by
\* less than tolerance.
C9_Idempotence ==
    (Again /\ FirstErr <= chain.tolerance * chain.tolerance)
    => Moved < chain.tolerance * chain.tolerance

\* C9 amended: if solve(t) returned with the end effector strictly within
\* tolerance of t (distance < tolerance), a second solve(t) runs no round and
\* leaves every joint in place, so it moves the end effector by less than
\* tolerance.
C9_IdempotenceStrict ==
    (Again /\ FirstErr < chain.tolerance * chain.tolerance)
    => /\ Moved < chain.tolerance * chain.tolerance
       /\ run.rounds = 0
       /\ chain.joints = before.chain.joints

\* A converged iterative solve, reached by rounds, was repeated.
C9_Witness ==
    /\ Again
    /\ FirstErr < chain.tolerance * chain.tolerance
    /\ ~run.stretched
    /\ chain.max_iterations > 0
    /\ joint_count(chain) > 2

\* C10: solve runs at most max_iterations rounds, none in the unreachable
\* branch or when max_iterations == 0; a round is run only after a check
\* that found the end effector not within tolerance, solve stops short of
\* max_iterations only when a check finds it within tolerance, and it
\* returns the chain as the last round left it.
C10_IterationCap ==
    op = "solve" =>
        /\ run.rounds <= chain.max_iterations
        /\ run.stretched => run.rounds = 0
        /\ ~run.stretched =>
              /\ Len(run.errs) = run.rounds + 1
              /\ \A i \in 1..run.rounds :
                    run.errs[i] >= chain.tolerance * chain.tolerance
              /\ run.rounds < chain.max_iterations =>
                    Last(run.errs) < chain.tolerance * chain.tolerance
              /\ Last(run.errs) = distance_squared(Last(chain.joints), arg)
              /\ (\A i \in 1..Len(run.errs) :
                    run.errs[i] >= chain.tolerance * chain.tolerance)
                 => run.rounds = chain.max_iterations

\* solve used up max_iterations > 0 rounds without coming within tolerance.
C10_Witness ==
    /\ op = "solve"
    /\ ~run.stretched
    /\ chain.max_iterations > 0
    /\ run.rounds = chain.max_iterations
    /\ Last(run.errs) >= chain.tolerance * chain.tolerance
    /\ chain.tolerance > 0

\* C11: new (called directly or by rebuild) and with_lengths give lengths.len() + 1 joints, joints[0] ==
\* origin and joints[k] == (origin.x, origin.y - (lengths[0] + ... +
\* lengths[k-1])); new gives segment_count lengths equal to segment_length;
\* an empty lengths list gives the single joint [origin] and total_length 0.
C11_RestPose ==
    op \in {"new", "with_lengths", "rebuild"} =>
        /\ op \in {"new", "rebuild"} =>
              /\ segment_count(chain) = arg.segment_count
              /\ \A i \in Segments : chain.lengths[i] = arg.segment_length
        /\ op = "with_lengths" => chain.lengths = arg
        /\ joint_count(chain) = segment_count(chain) + 1
        /\ chain.joints[1] = origin(chain)
        /\ \A k \in Segments :
              chain.joints[k + 1] =
                  Vec2(origin(chain).x, origin(chain).y - SumTo(chain.lengths, k))
        /\ chain.lengths = <<>> =>
              /\ chain.joints = <<origin(chain)>>
              /\ total_length(chain) = 0

\* with_lengths has laid out three segments of different lengths, the end
\* effector 50 above an origin that is not (0,0).
C11_Witness ==
    /\ op = "with_lengths"
    /\ chain.lengths = <<30 * Scale, 0, 20 * Scale>>
    /\ origin(chain) = P(0, -40)
    /\ chain.joints = <<P(0, -40), P(0, -70), P(0, -70), P(0, -90)>>

\* The first forward pass of the solve just called, and the backward pass
\* that follows it.
FirstForward == forward_reach(before.chain, arg)

FirstBackward == backward_reach(FirstForward, before.chain.joints[1])

\* C12: in forward_reach and backward_reach, a joint that coincides exactly
\* with its already-updated anchor neighbour when it is repositioned is left
\* on that anchor; and solve toward target == base on the chain of two
\* segments of 50 in rest pose folds the chain back on itself, every
\* coordinate an integer count and the end effector on the target.
C12_CoincidentJoints ==
    op = "solve" =>
        /\ \A i \in Segments :
              before.chain.joints[i] = FirstForward.joints[i + 1]
                  => FirstForward.joints[i] = FirstForward.joints[i + 1]
        /\ \A i \in Segments :
              FirstForward.joints[i + 1] = FirstBackward.joints[i]
                  => FirstBackward.joints[i + 1] = FirstBackward.joints[i]
        /\ ( /\ before.chain.joints = <<P(0, 0), P(0, -50), P(0, -100)>>
             /\ before.chain.lengths = <<50 * Scale, 50 * Scale>>
             /\ before.chain.max_iterations > 0
             /\ arg = P(0, 0) )
           => /\ chain.joints = <<P(0, 0), P(0, -50), P(0, 0)>>
              /\ \A k \in 1..joint_count(chain) :
                    chain.joints[k].x \in Int /\ chain.joints[k].y \in Int
              /\ Last(chain.joints) = arg

\* solve ran rounds in which a joint of a segment of non-zero length met its
\* anchor in the forward pass and again in the backward pass.
C12_Witness ==
    /\ op = "solve"
    /\ run.rounds > 0
    /\ \E i \in Segments :
          /\ chain.lengths[i] # 0
          /\ before.chain.joints[i] = FirstForward.joints[i + 1]
          /\ FirstForward.joints[i] = FirstForward.joints[i + 1]
    /\ \E i \in Segments :
          /\ chain.lengths[i] # 0
          /\ FirstForward.joints[i + 1] = FirstBackward.joints[i]
          /\ FirstBackward.joints[i + 1] = FirstBackward.joints[i]

=============================================================================
